---- MODULE Spec2Model ----
(***************************************************************************)
(* Model of ansible_risk_insight/risk_detector.py: detect() folds the rule *)
(* set over an ordered forest of TaskCallsInTree and returns a narrative   *)
(* report (result_txt) and a structured report (data_report).              *)
(*                                                                         *)
(* Python lists are objects: role_to_playbook_mappings.get(name, [])       *)
(* returns the list stored in the mapping, not a copy.  The model keeps a  *)
(* heap of list objects; the mapping and the result records hold heap      *)
(* addresses, so that an in-place append is seen through every reference.  *)
(*                                                                         *)
(* Strings that the code builds by formatting are modelled as sequences of *)
(* line records (kind, num, text, names).                                  *)
(***************************************************************************)
EXTENDS Integers, Sequences, FiniteSets, TLC

\* Bounds of the model.
MaxTrees == 3
MaxRerunTrees == 2
MaxRuns == 2

\* Python's None (key2name falls off the end for a type that is neither
\* playbook nor role).
None == "<None>"

(***************************************************************************)
(* Data model                                                              *)
(***************************************************************************)

\* A root_key "<type> <type>:<path>" is modelled by its type token and the
\* path after the delimiter, split into segments.  Role names have one
\* segment.
PlaybookKey(dir, base) == [type |-> "playbook", path |-> <<dir, base>>]
RoleKey(name) == [type |-> "role", path |-> <<name>>]
TaskfileKey == [type |-> "taskfile", path |-> <<"tasks", "main.yml">>]

\* keyutil.detect_type: the type token of the key.
detect_type(key) == key.type

\* os.path.basename of a path.
basename(path) == IF path = <<>> THEN "" ELSE path[Len(path)]

key2name(key) ==
    LET _type == detect_type(key) IN
    IF _type = "playbook" THEN basename(key.path)
    ELSE IF _type = "role" THEN key.path[1]
    ELSE None

\* str.upper() on the type tokens of the model.
upper(s) ==
    CASE s = "playbook" -> "PLAYBOOK"
      [] s = "role" -> "ROLE"
      [] s = "taskfile" -> "TASKFILE"
      [] OTHER -> s

\* A task call: spec.defined_in split at "/", the rules for which the task
\* is a finding and the rules whose check fails on the task.
FaultyTaskCall(defined_in, findings, faults) ==
    [defined_in |-> defined_in, findings |-> findings, faults |-> faults]

TaskCall(defined_in, findings) == FaultyTaskCall(defined_in, findings, {})

\* rules.base.subject_placeholder: the placeholder of all_ok_message.
subject_placeholder == "<subject>"

\* The rule set returned by load_rules(), in the order of rules.__all__.  A
\* message template is a sequence of pieces of text; the empty string is the
\* empty sequence.
Rules == <<
    [name |-> "InlineA", enabled |-> TRUE, separate_report |-> FALSE, all_ok_message |-> <<>>],
    [name |-> "TableT", enabled |-> TRUE, separate_report |-> TRUE,
     all_ok_message |-> <<"No ", subject_placeholder, " at risk">>],
    [name |-> "InlineB", enabled |-> TRUE, separate_report |-> FALSE, all_ok_message |-> <<>>],
    [name |-> "OffInline", enabled |-> FALSE, separate_report |-> FALSE, all_ok_message |-> <<>>],
    [name |-> "OffTable", enabled |-> FALSE, separate_report |-> TRUE, all_ok_message |-> <<>>],
    [name |-> "TableU", enabled |-> TRUE, separate_report |-> TRUE, all_ok_message |-> <<>>] >>

load_rules == Rules

RuleNames == {Rules[k].name : k \in 1..Len(Rules)}

\* Blank lines are lines made of spaces only.
BlankLines == {"", "  "}

\* The message a rule reports: multi-line text, one element per line.
RuleMessage(rule_name) ==
    CASE rule_name = "InlineA" -> <<"a: risk", "  ", "a: detail">>
      [] rule_name = "InlineB" -> <<"b: risk">>
      [] rule_name = "TableT" -> <<"t: risk">>
      [] rule_name = "TableU" -> <<"u: risk">>
      [] OTHER -> <<"off: risk">>

\* rule.check(taskcalls): (matched, message), or an exception (raises).
\* Pure: depends on the rule and the task calls only.
check(rule, taskcalls) ==
    LET matched == \E k \in 1..Len(taskcalls) : rule.name \in taskcalls[k].findings
        raises == \E k \in 1..Len(taskcalls) : rule.name \in taskcalls[k].faults
    IN [raises |-> raises, matched |-> matched /\ ~raises,
        message |-> IF matched /\ ~raises THEN RuleMessage(rule.name) ELSE <<>>]

\* indent(multi_line_txt, level): drop the blank lines (level is 0 at every
\* call, so no prefix is added).
indent(multi_line_txt, level) ==
    SelectSeq(multi_line_txt, LAMBDA line : line \notin BlankLines)

(***************************************************************************)
(* Inputs                                                                  *)
(***************************************************************************)

InRole1 == <<"roles", "r1", "tasks", "main.yml">>
InRole2 == <<"roles", "r2", "tasks", "main.yml">>
InPlaybookDir == <<"playbooks", "roles", "r1", "main.yml">>

Off == {"OffInline", "OffTable"}

Tasks(defs, findings) ==
    [k \in 1..Len(defs) |-> TaskCall(defs[k], IF k = 1 THEN findings ELSE {})]

Tree(root_key, taskcalls) == [is_tree |-> TRUE, root_key |-> root_key, taskcalls |-> taskcalls]

\* A forest element that is not a TaskCallsInTree.
NotATree == [is_tree |-> FALSE, root_key |-> [type |-> "", path |-> <<>>], taskcalls |-> <<>>]

\* The trees of the model.  The first task of a tree carries its findings.
PlaybookTrees ==
    {Tree(PlaybookKey("playbooks", "p1.yml"), Tasks(<<InPlaybookDir>>, {"InlineA", "TableT"} \cup Off)),
     Tree(PlaybookKey("playbooks", "p1.yml"), Tasks(<<InRole1>>, {"InlineA", "TableT"} \cup Off)),
     Tree(PlaybookKey("playbooks", "p1.yml"), Tasks(<<InRole1, InRole2, InRole1>>, {})),
     Tree(PlaybookKey("playbooks", "p2.yml"), Tasks(<<InRole1>>, {}))}

RoleTrees ==
    {Tree(RoleKey("r1"), Tasks(<<InRole1>>, f)) :
        f \in {{"InlineA", "InlineB"} \cup Off, {"TableT"}, {"InlineB", "TableT", "TableU"}}}
    \cup {Tree(RoleKey("r1"), <<FaultyTaskCall(InRole1, Off, {"OffInline"})>>)}
    \cup {Tree(RoleKey("r2"), Tasks(<<InRole2>>, {"InlineA"}))}

\* A role tree on which the check of the enabled rule InlineB raises.
FaultyTrees ==
    {Tree(RoleKey("r1"), <<FaultyTaskCall(InRole1, {"InlineA"}, {"InlineB"})>>)}

\* A tree whose root is neither a playbook nor a role.
OtherTrees ==
    {Tree(TaskfileKey, Tasks(<<InRole1>>, {"InlineA", "TableT"}))}

TreeSet == PlaybookTrees \cup RoleTrees \cup FaultyTrees \cup OtherTrees \cup {NotATree}

Forests(n) == UNION {[1..m -> TreeSet] : m \in 0..n}

(***************************************************************************)
(* State                                                                   *)
(***************************************************************************)
VARIABLES
    forest,                     \* taskcalls_in_trees, the argument of detect
    pc,                         \* "call", "loop", "done", "raised"
    run,                        \* number of the current call of detect
    i,                          \* elements of the forest consumed by the loop
    report_num,
    playbook_count,
    role_count,
    data_report,
    separate_report,            \* ordered dict: sequence of [name, rule, matched]
    role_to_playbook_mappings,  \* dict: role name -> address of its list
    heap,                       \* list objects: address -> sequence of names
    risk_found_playbooks,
    tmp_result_txt,
    result_dict,                \* ordered dict: sequence of [rule, results]
    result_txt,
    checked,                    \* history: the calls of rule.check, <<tree index, rule name>>
    returned,                   \* history: the structured reports returned so far
    task,                       \* the TaskCall handed to SampleCustomAnnotator
    apc,                        \* "off", "idle", "run_returned", "homebrew_returned"
    ret                         \* the value returned by the annotator

\* The variables of the annotator.
avars == <<task, apc, ret>>

vars == <<forest, pc, run, i, report_num, playbook_count, role_count, data_report,
          separate_report, role_to_playbook_mappings, heap, risk_found_playbooks,
          tmp_result_txt, result_dict, result_txt, checked, returned, task, apc, ret>>


(***************************************************************************)
(* Helpers for Python values                                               *)
(***************************************************************************)

EmptyDict == [k \in {} |-> 0]

\* dict[key] = value
DictSet(d, key, value) == [k \in DOMAIN d \cup {key} |-> IF k = key THEN value ELSE d[k]]

\* Position of the entry of an ordered dict (0 when the key is absent).
IndexOf(entries, key) ==
    IF \E k \in 1..Len(entries) : entries[k].key = key
    THEN CHOOSE k \in 1..Len(entries) : entries[k].key = key
    ELSE 0

Elems(list) == {list[k] : k \in 1..Len(list)}

\* One line of report text.
Line(kind, num, text, names) == [kind |-> kind, num |-> num, text |-> text, names |-> names]

Separator == Line("sep", 0, "", <<>>)

\* The lines of (txt + "\n"): text without lines is one empty line.
TextLines(txt) ==
    IF txt = <<>> THEN <<Line("text", 0, "", <<>>)>>
    ELSE [k \in 1..Len(txt) |-> Line("text", 0, txt[k], <<>>)]

(***************************************************************************)
(* detect: the body of the loop over the forest                            *)
(***************************************************************************)

\* if not isinstance(taskcalls_in_tree, TaskCallsInTree): continue
IsTaskCallsInTree(element) == element.is_tree

AppendAlways(_mappings, tree_root_name) == Append(_mappings, tree_root_name)

\* if tree_root_name not in _mappings: _mappings.append(tree_root_name)
AppendIfAbsent(_mappings, tree_root_name) ==
    IF tree_root_name \in Elems(_mappings) THEN _mappings
    ELSE Append(_mappings, tree_root_name)

\* if parts[0] == "roles"
IsRoleInclusion(parts) == parts[1] = "roles"

\* One task call of a playbook tree: register role -> playbook.  The list of
\* the role is fetched from the mapping (a new list when the role is absent),
\* extended in place and stored back.
RegisterTaskcall(s, taskcall, tree_root_name) ==
    LET parts == taskcall.defined_in IN
    IF ~IsRoleInclusion(parts) THEN s
    ELSE
        LET role_name == parts[2]
            present == role_name \in DOMAIN s.map
            addr == IF present THEN s.map[role_name] ELSE Len(s.heap) + 1
            h == IF present THEN s.heap ELSE Append(s.heap, <<>>)
        IN [s EXCEPT !.heap = [h EXCEPT ![addr] = AppendIfAbsent(h[addr], tree_root_name)],
                     !.map = DictSet(s.map, role_name, addr)]

RECURSIVE RegisterTaskcalls(_, _, _, _)
RegisterTaskcalls(s, taskcalls, k, tree_root_name) ==
    IF k > Len(taskcalls) THEN s
    ELSE RegisterTaskcalls(RegisterTaskcall(s, taskcalls[k], tree_root_name),
                           taskcalls, k + 1, tree_root_name)

\* Classify the tree and count it.
CountTree(s, is_playbook, taskcalls, tree_root_name) ==
    IF is_playbook
    THEN RegisterTaskcalls([s EXCEPT !.playbook_count.total = @ + 1],
                           taskcalls, 1, tree_root_name)
    ELSE [s EXCEPT !.role_count.total = @ + 1]

RuleNeverSkipped(rule) == FALSE

\* if not rule.enabled: continue
RuleSkipped(rule) == ~rule.enabled

InlineSurfacedAlways(is_playbook) == TRUE

InlineSurfacedOnPlaybook(is_playbook) == is_playbook

\* if not is_playbook: (an inline match is surfaced)
InlineSurfaced(is_playbook) == ~is_playbook

\* Register the table of a tabulated rule on its first check.
RegisterTable(tables, rule) ==
    IF IndexOf(tables, rule.name) = 0
    THEN Append(tables, [key |-> rule.name, rule |-> rule, matched |-> <<>>])
    ELSE tables

AppendMatchedUnlessPlaybook(tables, rule_name, row) ==
    IF row[1] = "playbook" THEN tables
    ELSE [tables EXCEPT ![IndexOf(tables, rule_name)].matched = Append(@, row)]

\* separate_report[rule_name]["matched"].append(row)
AppendMatched(tables, rule_name, row) ==
    [tables EXCEPT ![IndexOf(tables, rule_name)].matched = Append(@, row)]

AppendResultNoCreate(results_by_rule, rule_name, record) ==
    IF IndexOf(results_by_rule, rule_name) = 0 THEN results_by_rule
    ELSE [results_by_rule EXCEPT ![IndexOf(results_by_rule, rule_name)].results = Append(@, record)]

AppendResultInFront(results_by_rule, rule_name, record) ==
    LET d == IF IndexOf(results_by_rule, rule_name) = 0
             THEN Append(results_by_rule, [key |-> rule_name, results |-> <<>>])
             ELSE results_by_rule
    IN [d EXCEPT ![IndexOf(d, rule_name)].results = <<record>> \o @]

\* result_dict[rule_name].append(record), creating the entry when absent.
AppendResult(results_by_rule, rule_name, record) ==
    LET d == IF IndexOf(results_by_rule, rule_name) = 0
             THEN Append(results_by_rule, [key |-> rule_name, results |-> <<>>])
             ELSE results_by_rule
    IN [d EXCEPT ![IndexOf(d, rule_name)].results = Append(@, record)]

CheckRaisesCaught(res) == FALSE

\* An exception of rule.check is not caught: it leaves detect.
CheckRaises(res) == res.raises

\* One rule applied to one tree.
ApplyRule(s, rule, idx, taskcalls, tree_root_type, tree_root_name, is_playbook) ==
    IF RuleSkipped(rule) THEN s
    ELSE
        LET rule_name == rule.name
            res == check(rule, taskcalls)
            message == res.message
            s1 == [s EXCEPT !.checked = @ \cup {<<idx, rule_name>>},
                            !.separate_report =
                                IF rule.separate_report THEN RegisterTable(@, rule) ELSE @]
        IN
        IF CheckRaises(res) THEN [s EXCEPT !.checked = @ \cup {<<idx, rule_name>>},
                                           !.raised = TRUE]
        ELSE IF ~res.matched THEN s1
        ELSE IF rule.separate_report THEN
            [s1 EXCEPT
                !.separate_report = AppendMatched(@, rule_name,
                                        <<tree_root_type, tree_root_name, message>>),
                !.result_dict = AppendResult(@, rule_name,
                                    [type |-> tree_root_type, name |-> tree_root_name,
                                     message |-> message])]
        ELSE IF InlineSurfaced(is_playbook) THEN
            LET present == tree_root_name \in DOMAIN s1.map
                \* role_to_playbook_mappings.get(tree_root_name, []): the list
                \* of the mapping itself, or a new empty list.
                used_in_playbooks == IF present THEN s1.map[tree_root_name]
                                     ELSE Len(s1.heap) + 1
            IN [s1 EXCEPT
                !.do_report = TRUE,
                !.alt = @ \o <<Line("text", 0, rule_name, <<>>)>> \o TextLines(indent(message, 0)),
                !.heap = IF present THEN @ ELSE Append(@, <<>>),
                !.result_dict = AppendResult(@, rule_name,
                                    [type |-> tree_root_type, name |-> tree_root_name,
                                     message |-> message,
                                     playbooks_use_this_role |-> used_in_playbooks])]
        ELSE s1

RECURSIVE ApplyRules(_, _, _, _, _, _, _, _)
ApplyRules(s, rules, k, idx, taskcalls, tree_root_type, tree_root_name, is_playbook) ==
    IF k > Len(rules) \/ s.raised THEN s
    ELSE ApplyRules(ApplyRule(s, rules[k], idx, taskcalls, tree_root_type, tree_root_name, is_playbook),
                    rules, k + 1, idx, taskcalls, tree_root_type, tree_root_name, is_playbook)

ShouldReportAlways(do_report, tmp_result_txt_alt) == TRUE

\* if do_report and tmp_result_txt_alt != ""
ShouldReport(do_report, tmp_result_txt_alt) == do_report /\ tmp_result_txt_alt # <<>>

UsedInPlaybooksEmpty(map, h, tree_root_name) == <<>>

\* role_to_playbook_mappings.get(tree_root_name, []), read only.
UsedInPlaybooks(map, h, tree_root_name) ==
    IF tree_root_name \in DOMAIN map THEN h[map[tree_root_name]] ELSE <<>>

NextReportNumSame(num) == num

\* report_num += 1
NextReportNum(num) == num + 1

RiskFoundReplaced(risk_found, used_in_playbooks) == Elems(used_in_playbooks)

\* risk_found_playbooks.union(set(used_in_playbooks))
RiskFound(risk_found, used_in_playbooks) == risk_found \cup Elems(used_in_playbooks)

\* The numbered section of a tree and the counters.
ReportTree(s, tree_root_type, tree_root_name, is_playbook) ==
    IF ~ShouldReport(s.do_report, s.alt) THEN s
    ELSE
        LET used_in_playbooks == UsedInPlaybooks(s.map, s.heap, tree_root_name)
            header == <<Line("header", s.report_num, upper(tree_root_type), <<tree_root_name>>)>>
            used_in == IF Len(used_in_playbooks) > 0
                       THEN <<Line("used_in", 0, "", used_in_playbooks)>>
                       ELSE <<>>
        IN [s EXCEPT
            !.tmp_result_txt = @ \o header \o used_in \o s.alt \o <<Separator>>,
            !.risk_found_playbooks = RiskFound(@, used_in_playbooks),
            !.report_num = NextReportNum(@),
            !.playbook_count.risk = IF is_playbook THEN @ + 1 ELSE @,
            !.role_count.risk = IF is_playbook THEN @ ELSE @ + 1]

\* One iteration of the loop for a TaskCallsInTree.
ProcessTreeStep(s, idx, taskcalls_in_tree) ==
    LET tree_root_key == taskcalls_in_tree.root_key
        tree_root_type == detect_type(tree_root_key)
        tree_root_name == key2name(tree_root_key)
        is_playbook == tree_root_type = "playbook"
        taskcalls == taskcalls_in_tree.taskcalls
        s1 == CountTree(s, is_playbook, taskcalls, tree_root_name)
        s2 == [s1 EXCEPT !.do_report = FALSE, !.alt = <<>>]
        s3 == ApplyRules(s2, load_rules, 1, idx, taskcalls, tree_root_type, tree_root_name, is_playbook)
    IN IF s3.raised THEN s3
       ELSE ReportTree(s3, tree_root_type, tree_root_name, is_playbook)

(***************************************************************************)
(* detect: after the loop                                                  *)
(***************************************************************************)

make_subject_str_roles_first(playbook_num, role_num) ==
    IF playbook_num > 0 /\ role_num > 0 THEN "playbooks/roles"
    ELSE IF role_num > 0 THEN "playbooks"
    ELSE IF playbook_num > 0 THEN "roles"
    ELSE ""

make_subject_str(playbook_num, role_num) ==
    IF playbook_num > 0 /\ role_num > 0 THEN "playbooks/roles"
    ELSE IF playbook_num > 0 THEN "playbooks"
    ELSE IF role_num > 0 THEN "roles"
    ELSE ""

\* data_report["details"]: one entry per key of result_dict, in its order.
Details(results_by_rule) ==
    [k \in 1..Len(results_by_rule) |->
        [rule |-> results_by_rule[k].key, results |-> results_by_rule[k].results]]

\* data_report["summary"]: a category is present when its total is positive.
Summary(pcount, rcount) ==
    LET cats == (IF pcount.total > 0 THEN {"playbooks"} ELSE {})
                \cup (IF rcount.total > 0 THEN {"roles"} ELSE {})
    IN [c \in cats |->
            IF c = "playbooks" THEN [total |-> pcount.total, risk_found |-> pcount.risk]
            ELSE [total |-> rcount.total, risk_found |-> rcount.risk]]

\* The counts printed under the header.
SummaryText(pcount, rcount, risk_found) ==
    (IF pcount.total > 0
     THEN <<Line("text", 0, "Playbooks", <<>>),
            Line("count", pcount.total, "Total", <<>>),
            Line("count", Cardinality(risk_found), "Risk Found", <<>>)>>
     ELSE <<>>)
    \o (IF rcount.total > 0
        THEN <<Line("text", 0, "Roles", <<>>),
               Line("count", rcount.total, "Total", <<>>),
               Line("count", rcount.risk, "Risk Found", <<>>)>>
        ELSE <<>>)

\* str.replace(old, new) on a text given by its pieces.
replace(txt, old, new) == [k \in 1..Len(txt) |-> IF txt[k] = old THEN new ELSE txt[k]]

\* The text of one table: tabulate() gives one row per matched tree, else the
\* all-ok message with the placeholder replaced by the subject.
TableText(rule, table_data, subject) ==
    LET placeholder == subject_placeholder
        table_txt == IF rule.all_ok_message # <<>>
                     THEN <<"  ">> \o rule.all_ok_message
                     ELSE <<"  All ", placeholder, " are OK">>
    IN IF Len(table_data) > 0
       THEN [k \in 1..Len(table_data) |-> [kind |-> "row", cells |-> table_data[k]]]
       ELSE <<Line("all_ok", 0, "", replace(table_txt, placeholder, subject))>>

RECURSIVE TabulatedSections(_, _, _)
TabulatedSections(tables, k, subject) ==
    IF k > Len(tables) THEN <<>>
    ELSE <<Line("label", 0, tables[k].key, <<>>)>>
         \o TableText(tables[k].rule, tables[k].matched, subject)
         \o <<Separator>>
         \o TabulatedSections(tables, k + 1, subject)

Header ==
    <<Separator, Line("text", 0, "Ansible Risk Insight Report", <<>>), Separator>>

ResultTextTablesFirst(pcount, rcount, risk_found, incidents, tables) ==
    Header
    \o SummaryText(pcount, rcount, risk_found)
    \o <<Separator>>
    \o TabulatedSections(tables, 1, make_subject_str(pcount.total, rcount.total))
    \o incidents

\* The narrative report returned by detect.
ResultText(pcount, rcount, risk_found, incidents, tables) ==
    Header
    \o SummaryText(pcount, rcount, risk_found)
    \o <<Separator>>
    \o incidents
    \o TabulatedSections(tables, 1, make_subject_str(pcount.total, rcount.total))

\* The structured report as its reader sees it: every list reference is
\* followed into the heap.
RecordView(record, h) ==
    IF "playbooks_use_this_role" \in DOMAIN record
    THEN [record EXCEPT !.playbooks_use_this_role = h[@]]
    ELSE record

ReportView(report, h) ==
    [summary |-> report.summary,
     details |-> [k \in 1..Len(report.details) |->
                    [rule |-> report.details[k].rule,
                     results |-> [n \in 1..Len(report.details[k].results) |->
                                    RecordView(report.details[k].results[n], h)]]]]

(***************************************************************************)
(* Actions                                                                 *)
(***************************************************************************)

\* The locals of detect as one record.
Locals ==
    [report_num |-> report_num, playbook_count |-> playbook_count,
     role_count |-> role_count, separate_report |-> separate_report,
     map |-> role_to_playbook_mappings, heap |-> heap,
     risk_found_playbooks |-> risk_found_playbooks,
     tmp_result_txt |-> tmp_result_txt, result_dict |-> result_dict,
     checked |-> checked, do_report |-> FALSE, alt |-> <<>>, raised |-> FALSE]

StaleCounts(stale) ==
    [report_num |-> 1, playbook_count |-> stale.playbook_count,
     role_count |-> stale.role_count, separate_report |-> <<>>,
     map |-> EmptyDict, heap |-> <<>>,
     risk_found_playbooks |-> {},
     tmp_result_txt |-> <<>>, result_dict |-> <<>>,
     checked |-> {}, do_report |-> FALSE, alt |-> <<>>, raised |-> FALSE]

\* The locals at the start of a call; the values left by an earlier call
\* (stale) are not used.
FreshLocals(stale) ==
    [report_num |-> 1, playbook_count |-> [total |-> 0, risk |-> 0],
     role_count |-> [total |-> 0, risk |-> 0], separate_report |-> <<>>,
     map |-> EmptyDict, heap |-> <<>>,
     risk_found_playbooks |-> {},
     tmp_result_txt |-> <<>>, result_dict |-> <<>>,
     checked |-> {}, do_report |-> FALSE, alt |-> <<>>, raised |-> FALSE]

EmptyReport == [summary |-> EmptyDict, details |-> <<>>]

SetLocals(s) ==
    /\ report_num' = s.report_num
    /\ playbook_count' = s.playbook_count
    /\ role_count' = s.role_count
    /\ separate_report' = s.separate_report
    /\ role_to_playbook_mappings' = s.map
    /\ heap' = s.heap
    /\ risk_found_playbooks' = s.risk_found_playbooks
    /\ tmp_result_txt' = s.tmp_result_txt
    /\ result_dict' = s.result_dict
    /\ checked' = s.checked

(***************************************************************************)
(* annotators/sample_custom_annotator.py                                   *)
(***************************************************************************)

\* Bound: the resolved option alternatives of a VariableAnnotation.
MaxResolved == 1

\* A Python value used as module options: a dict with its items, or a value
\* of another type (None, str, list).
Dict(items) == [kind |-> "dict", items |-> items]

NonDict(kind) == [kind |-> kind, items |-> EmptyDict]

\* The dicts over the keys name, state and version.
OptionDicts ==
    {Dict([k \in keys |-> CASE k = "name" -> name [] k = "state" -> state [] OTHER -> "1.0"]) :
        keys \in SUBSET {"name", "state", "version"},
        name \in {"wget", "absent"},
        state \in {"absent", "present", "Absent"}}

OptionValues == OptionDicts \cup {NonDict("NoneType"), NonDict("str"), NonDict("list")}

ResolvedOptionValues ==
    {Dict([k \in {"name", "state"} |-> IF k = "name" THEN "git" ELSE "absent"]), NonDict("str")}

\* The value of taskcall.get_annotation_by_type(VARIABLE_ANNOTATION_TYPE).
VariableAnnotation(resolved_module_options) ==
    [type |-> "variable_annotation", resolved_module_options |-> resolved_module_options]

VarAnnoLists ==
    {<<>>} \cup {<<VariableAnnotation(ros)>> :
                    ros \in UNION {[1..n -> ResolvedOptionValues] : n \in 0..MaxResolved}}

\* The task calls handed to the annotator.
AnnotatorTasks ==
    [resolved_name : {"sample.custom.homebrew", "ansible.builtin.debug"},
     module_options : OptionValues,
     var_annos : VarAnnoLists]

NoTask == [resolved_name |-> "", module_options |-> NonDict("NoneType"), var_annos |-> <<>>]

NoValue == [kind |-> "none"]

\* RiskAnnotator.type
RiskAnnotationType == "risk_annotation"

homebrew_any_state(options) ==
    LET data == EmptyDict IN
    IF options.kind # "dict" THEN data
    ELSE
        LET d1 == IF "name" \in DOMAIN options.items
                  THEN DictSet(data, "pkg", options.items["name"]) ELSE data
        IN IF "state" \in DOMAIN options.items
           THEN DictSet(d1, "delete", TRUE) ELSE d1

\* SampleCustomAnnotator.homebrew
homebrew(options) ==
    LET data == EmptyDict IN
    IF options.kind # "dict" THEN data
    ELSE
        LET d1 == IF "name" \in DOMAIN options.items
                  THEN DictSet(data, "pkg", options.items["name"]) ELSE data
        IN IF "state" \in DOMAIN options.items /\ options.items["state"] = "absent"
           THEN DictSet(d1, "delete", TRUE) ELSE d1

\* SampleCustomAnnotator.match
match(taskcall) == FALSE

\* SampleCustomAnnotator.run: the value returned, the task call itself or a
\* list of annotations.
run_annotator(taskcall) ==
    IF ~match(taskcall) THEN [kind |-> "taskcall", taskcall |-> taskcall]
    ELSE
        LET resolved_name == taskcall.resolved_name
            options == taskcall.module_options
            var_annos == taskcall.var_annos
            var_anno == IF Len(var_annos) > 0 THEN var_annos[1] ELSE VariableAnnotation(<<>>)
            resolved_options == var_anno.resolved_module_options
            res == [type |-> RiskAnnotationType, category |-> "PACKAGE_INSTALL",
                    data |-> homebrew(options),
                    resolved_data |-> [n \in 1..Len(resolved_options) |->
                                            homebrew(resolved_options[n])]]
        IN [kind |-> "list",
            items |-> IF resolved_name = "sample.custom.homebrew" THEN <<res>> ELSE <<>>]

\* The annotator is not part of a run of detect.
AnnotatorOff ==
    /\ task = NoTask
    /\ apc = "off"
    /\ ret = NoValue

InitWith(forests) ==
    /\ forest \in forests
    /\ pc = "call"
    /\ run = 1
    /\ i = 0
    /\ report_num = 1
    /\ playbook_count = [total |-> 0, risk |-> 0]
    /\ role_count = [total |-> 0, risk |-> 0]
    /\ data_report = EmptyReport
    /\ separate_report = <<>>
    /\ role_to_playbook_mappings = EmptyDict
    /\ heap = <<>>
    /\ risk_found_playbooks = {}
    /\ tmp_result_txt = <<>>
    /\ result_dict = <<>>
    /\ result_txt = <<>>
    /\ checked = {}
    /\ returned = <<>>

Init == InitWith(Forests(MaxTrees)) /\ AnnotatorOff

\* detect is called: the locals are set up.
Begin ==
    /\ pc = "call"
    /\ pc' = "loop"
    /\ i' = 0
    /\ SetLocals(FreshLocals(Locals))
    /\ data_report' = EmptyReport
    /\ result_txt' = Header
    /\ UNCHANGED <<forest, run, returned>>
    /\ UNCHANGED avars

\* The element is not a TaskCallsInTree: continue.
SkipElement ==
    /\ pc = "loop"
    /\ i < Len(forest)
    /\ ~IsTaskCallsInTree(forest[i + 1])
    /\ i' = i + 1
    /\ UNCHANGED <<forest, pc, run, report_num, playbook_count, role_count, data_report,
                   separate_report, role_to_playbook_mappings, heap, risk_found_playbooks,
                   tmp_result_txt, result_dict, result_txt, checked, returned>>
    /\ UNCHANGED avars

\* One iteration of the loop for a tree.
ProcessTree ==
    /\ pc = "loop"
    /\ i < Len(forest)
    /\ IsTaskCallsInTree(forest[i + 1])
    /\ ~ProcessTreeStep(Locals, i + 1, forest[i + 1]).raised
    /\ i' = i + 1
    /\ SetLocals(ProcessTreeStep(Locals, i + 1, forest[i + 1]))
    /\ UNCHANGED <<forest, pc, run, data_report, result_txt, returned>>
    /\ UNCHANGED avars

\* The check of a rule raises during the iteration: the exception ends the
\* call of detect and nothing is returned.
RuleRaises ==
    /\ pc = "loop"
    /\ i < Len(forest)
    /\ IsTaskCallsInTree(forest[i + 1])
    /\ ProcessTreeStep(Locals, i + 1, forest[i + 1]).raised
    /\ pc' = "raised"
    /\ SetLocals(ProcessTreeStep(Locals, i + 1, forest[i + 1]))
    /\ UNCHANGED <<forest, run, i, data_report, result_txt, returned>>
    /\ UNCHANGED avars

\* The loop is over: both reports are built and returned.
Finish ==
    /\ pc = "loop"
    /\ i = Len(forest)
    /\ pc' = "done"
    /\ data_report' = [summary |-> Summary(playbook_count, role_count),
                       details |-> Details(result_dict)]
    /\ result_txt' = ResultText(playbook_count, role_count, risk_found_playbooks,
                                tmp_result_txt, separate_report)
    /\ returned' = Append(returned, ReportView(data_report', heap))
    /\ UNCHANGED <<forest, run, i, report_num, playbook_count, role_count,
                   separate_report, role_to_playbook_mappings, heap, risk_found_playbooks,
                   tmp_result_txt, result_dict, checked>>
    /\ UNCHANGED avars

\* The caller calls detect again with the same forest.
Rerun ==
    /\ pc = "done"
    /\ run < MaxRuns
    /\ pc' = "call"
    /\ run' = run + 1
    /\ UNCHANGED <<forest, i, report_num, playbook_count, role_count, data_report,
                   separate_report, role_to_playbook_mappings, heap, risk_found_playbooks,
                   tmp_result_txt, result_dict, result_txt, checked, returned>>
    /\ UNCHANGED avars

Next == Begin \/ SkipElement \/ ProcessTree \/ RuleRaises \/ Finish

Spec == Init /\ [][Next]_vars

\* Repeated calls of detect on one forest.
InitRerun == InitWith(Forests(MaxRerunTrees)) /\ AnnotatorOff

NextRerun == Begin \/ SkipElement \/ ProcessTree \/ RuleRaises \/ Finish \/ Rerun

SpecRerun == InitRerun /\ [][NextRerun]_vars

\* The annotator on its own: one task call, handed to run or its options
\* handed to homebrew.
dvars == <<forest, pc, run, i, report_num, playbook_count, role_count, data_report,
           separate_report, role_to_playbook_mappings, heap, risk_found_playbooks,
           tmp_result_txt, result_dict, result_txt, checked, returned>>

InitAnnotator ==
    /\ InitWith({<<>>})
    /\ task \in AnnotatorTasks
    /\ apc = "idle"
    /\ ret = NoValue

CallRun ==
    /\ apc = "idle"
    /\ apc' = "run_returned"
    /\ ret' = run_annotator(task)
    /\ UNCHANGED task
    /\ UNCHANGED dvars

CallHomebrew ==
    /\ apc = "idle"
    /\ apc' = "homebrew_returned"
    /\ ret' = [kind |-> "dict", items |-> homebrew(task.module_options)]
    /\ UNCHANGED task
    /\ UNCHANGED dvars

NextAnnotator == CallRun \/ CallHomebrew

SpecAnnotator == InitAnnotator /\ [][NextAnnotator]_vars

(***************************************************************************)
(* Vocabulary of the properties                                            *)
(***************************************************************************)

\* A step of the loop that consumes forest[i + 1].
LoopStep == pc = "loop" /\ i' = i + 1

TreeStep == LoopStep /\ forest[i + 1].is_tree

TypeOf(tree) == detect_type(tree.root_key)

NameOf(tree) == key2name(tree.root_key)

Matches(rule, tree) == check(rule, tree.taskcalls).matched

EnabledInline == {k \in 1..Len(Rules) : Rules[k].enabled /\ ~Rules[k].separate_report}

EnabledTabulated == {k \in 1..Len(Rules) : Rules[k].enabled /\ Rules[k].separate_report}

Disabled == {k \in 1..Len(Rules) : ~Rules[k].enabled}

\* The enabled inline rules that return matched on the tree.
InlineMatched(tree) == {k \in EnabledInline : Matches(Rules[k], tree)}

IsPrefix(a, b) == Len(a) <= Len(b) /\ SubSeq(b, 1, Len(a)) = a

\* The narrative text added by the step.
NewText == SubSeq(tmp_result_txt', Len(tmp_result_txt) + 1, Len(tmp_result_txt'))

Headers(txt) == {k \in 1..Len(txt) : txt[k].kind = "header"}

HasText(txt, str) == \E k \in 1..Len(txt) : txt[k].kind = "text" /\ txt[k].text = str

RowsOf(tables, rule_name) ==
    IF IndexOf(tables, rule_name) = 0 THEN <<>> ELSE tables[IndexOf(tables, rule_name)].matched

ResultsOf(results_by_rule, rule_name) ==
    IF IndexOf(results_by_rule, rule_name) = 0 THEN <<>>
    ELSE results_by_rule[IndexOf(results_by_rule, rule_name)].results

\* The playbook tree at idx has a task defined in roles/<role>/...
LinkedAt(idx, role, playbook) ==
    /\ forest[idx].is_tree
    /\ TypeOf(forest[idx]) = "playbook"
    /\ NameOf(forest[idx]) = playbook
    /\ \E k \in 1..Len(forest[idx].taskcalls) :
        LET parts == forest[idx].taskcalls[k].defined_in IN
        Len(parts) >= 2 /\ parts[1] = "roles" /\ parts[2] = role

PlaybookNames == {NameOf(t) : t \in PlaybookTrees}

(***************************************************************************)
(* C1                                                                      *)
(***************************************************************************)

\* C1: single incident per tree.  When a role tree is processed and N >= 1
\* enabled inline rules match it, exactly one numbered section "#n ROLE -
\* <name>" is added, with the name and the non-blank message lines of each of
\* the N rules, the incident counter grows by 1 and role_count.risk grows by
\* 1; when none matches, no text is added and no counter changes.
C1_SingleIncidentPerTree ==
    [][(TreeStep /\ TypeOf(forest[i + 1]) = "role") =>
        LET tree == forest[i + 1]
            N == InlineMatched(tree)
        IN IF N # {}
           THEN /\ IsPrefix(tmp_result_txt, tmp_result_txt')
                /\ Cardinality(Headers(NewText)) = 1
                /\ NewText[1] = Line("header", report_num, "ROLE", <<NameOf(tree)>>)
                /\ NewText[Len(NewText)] = Separator
                /\ \A k \in N :
                    /\ HasText(NewText, Rules[k].name)
                    /\ \A n \in 1..Len(RuleMessage(Rules[k].name)) :
                        RuleMessage(Rules[k].name)[n] \notin BlankLines
                            => HasText(NewText, RuleMessage(Rules[k].name)[n])
                /\ Cardinality({n \in 1..Len(NewText) :
                        NewText[n].kind = "text" /\ NewText[n].text \in RuleNames}) = Cardinality(N)
                /\ report_num' = report_num + 1
                /\ role_count'.risk = role_count.risk + 1
                /\ playbook_count'.risk = playbook_count.risk
           ELSE /\ tmp_result_txt' = tmp_result_txt
                /\ report_num' = report_num
                /\ role_count'.risk = role_count.risk
                /\ playbook_count'.risk = playbook_count.risk
    ]_vars

\* A role tree matched by two inline rules has been processed and reported
\* once.
C1_Witness ==
    /\ pc = "loop"
    /\ i >= 1
    /\ forest[i].is_tree
    /\ TypeOf(forest[i]) = "role"
    /\ Cardinality(InlineMatched(forest[i])) = 2
    /\ role_count.risk = 1
    /\ Cardinality(Headers(tmp_result_txt)) = 1

(***************************************************************************)
(* C2                                                                      *)
(***************************************************************************)

\* C2: ordering caveat in the narrative report.  When a role tree named R on
\* which an inline rule matches is processed at index j, its section shows
\* playbook P in the used_in line exactly when some playbook tree named P at
\* an index before j has a task defined in roles/R: a link first made at
\* i < j is shown, a link first made after j is not.
C2_OrderingCaveat ==
    [][(TreeStep /\ TypeOf(forest[i + 1]) = "role" /\ InlineMatched(forest[i + 1]) # {}) =>
        \A P \in PlaybookNames :
            (\E k \in 1..Len(NewText) :
                NewText[k].kind = "used_in" /\ P \in Elems(NewText[k].names))
            <=> (\E idx \in 1..i : LinkedAt(idx, NameOf(forest[i + 1]), P))
    ]_vars

\* The role r1 is reported before and after the playbook that links it: one
\* section without and one with a used_in line.
C2_Witness ==
    /\ pc = "loop"
    /\ i = 3
    /\ forest[1].is_tree /\ TypeOf(forest[1]) = "role" /\ InlineMatched(forest[1]) # {}
    /\ LinkedAt(2, NameOf(forest[1]), NameOf(forest[2]))
    /\ forest[3].is_tree /\ forest[3].root_key = forest[1].root_key
    /\ InlineMatched(forest[3]) # {}
    /\ Cardinality(Headers(tmp_result_txt)) = 2
    /\ Cardinality({k \in 1..Len(tmp_result_txt) : tmp_result_txt[k].kind = "used_in"}) = 1

(***************************************************************************)
(* C3                                                                      *)
(***************************************************************************)

\* C3: snapshot of used_in in the structured report.  A record appended for
\* an inline match holds the playbooks mapped to the role at that moment, and
\* later steps of the run leave the list of every record already appended as
\* it was.
C3_SnapshotKept ==
    [][pc = "loop" =>
        /\ \A e \in 1..Len(result_dict) : \A n \in 1..Len(result_dict[e].results) :
            RecordView(result_dict'[e].results[n], heap')
                = RecordView(result_dict[e].results[n], heap)
        /\ (TreeStep /\ TypeOf(forest[i + 1]) = "role") =>
            \A k \in InlineMatched(forest[i + 1]) :
                LET rs == ResultsOf(result_dict', Rules[k].name) IN
                /\ rs # <<>>
                /\ RecordView(rs[Len(rs)], heap').playbooks_use_this_role
                    = UsedInPlaybooks(role_to_playbook_mappings, heap, NameOf(forest[i + 1]))
    ]_vars

(***************************************************************************)
(* C4                                                                      *)
(***************************************************************************)

\* C4: tabulated independence.  In every step of the loop the table of each
\* enabled tabulated rule gets one row (root type, root name, message) when
\* the element is a tree, playbook or role alike, on which the rule matches,
\* and stays as it is otherwise; a step on a tree that no inline rule
\* surfaces leaves playbook_count.risk, role_count.risk and the incident
\* counter as they were, whatever the tabulated rules matched.
C4_TabulatedIndependence ==
    [][LoopStep =>
        LET tree == forest[i + 1] IN
        /\ \A k \in EnabledTabulated :
            LET name == Rules[k].name IN
            RowsOf(separate_report', name) =
                IF tree.is_tree /\ Matches(Rules[k], tree)
                THEN Append(RowsOf(separate_report, name),
                            <<TypeOf(tree), NameOf(tree), RuleMessage(name)>>)
                ELSE RowsOf(separate_report, name)
        /\ (~tree.is_tree \/ TypeOf(tree) = "playbook" \/ InlineMatched(tree) = {}) =>
            /\ playbook_count'.risk = playbook_count.risk
            /\ role_count'.risk = role_count.risk
            /\ report_num' = report_num
    ]_vars

\* The table of a tabulated rule holds a row of a playbook tree and a row of
\* a role tree while no risk has been counted.
C4_Witness ==
    /\ pc = "loop"
    /\ \E k \in EnabledTabulated :
        LET rows == RowsOf(separate_report, Rules[k].name) IN
        /\ \E n \in 1..Len(rows) : rows[n][1] = "playbook"
        /\ \E n \in 1..Len(rows) : rows[n][1] = "role"
    /\ role_count.risk = 0
    /\ playbook_count.risk = 0
    /\ report_num = 1

(***************************************************************************)
(* C5                                                                      *)
(***************************************************************************)

\* C5: the structured report is fully populated.  The details of the report
\* returned by detect hold an entry for each enabled rule, whether or not the
\* rule matched a tree.
C5_EveryEnabledRuleListed ==
    pc = "done" =>
        \A k \in 1..Len(Rules) :
            Rules[k].enabled =>
                \E e \in 1..Len(data_report.details) : data_report.details[e].rule = Rules[k].name

\* The matches of a rule that the structured report records: a tabulated rule
\* on any tree, an inline rule on any tree that is not a playbook.
Recorded(rule, tree) ==
    /\ tree.is_tree
    /\ rule.enabled
    /\ Matches(rule, tree)
    /\ (rule.separate_report \/ TypeOf(tree) # "playbook")

\* C5 (amended): the details of the report returned by detect hold exactly
\* one entry, with a non-empty result list, for each enabled rule that has a
\* recorded match on some tree of the forest, and no entry for any other
\* rule.
C5_MatchedRulesListed ==
    pc = "done" =>
        /\ \A k \in 1..Len(Rules) :
            (\E e \in 1..Len(data_report.details) : data_report.details[e].rule = Rules[k].name)
            <=> (\E idx \in 1..Len(forest) : Recorded(Rules[k], forest[idx]))
        /\ \A e, f \in 1..Len(data_report.details) :
            data_report.details[e].rule = data_report.details[f].rule => e = f
        /\ \A e \in 1..Len(data_report.details) :
            /\ data_report.details[e].rule \in RuleNames
            /\ data_report.details[e].results # <<>>

\* A report with the entries of an inline and a tabulated rule, and none for
\* the enabled rule InlineB that matched no tree.
C5_Witness ==
    /\ pc = "done"
    /\ Len(data_report.details) = 2
    /\ \E e \in 1..2 : data_report.details[e].rule = "InlineA"
    /\ \E e \in 1..2 : data_report.details[e].rule = "TableT"

(***************************************************************************)
(* C6                                                                      *)
(***************************************************************************)

\* C6: inline rules never surface playbook trees.  A step that processes a
\* playbook tree adds no text to the incident sections, leaves the result
\* list of every enabled inline rule as it was, and changes neither the
\* incident counter nor a risk counter, also when inline rules match the
\* tree.
C6_InlineNeverOnPlaybook ==
    [][(TreeStep /\ TypeOf(forest[i + 1]) = "playbook") =>
        /\ tmp_result_txt' = tmp_result_txt
        /\ \A k \in EnabledInline :
            ResultsOf(result_dict', Rules[k].name) = ResultsOf(result_dict, Rules[k].name)
        /\ report_num' = report_num
        /\ playbook_count'.risk = playbook_count.risk
        /\ role_count'.risk = role_count.risk
    ]_vars

\* A playbook tree on which an inline rule matches has been processed.
C6_Witness ==
    /\ pc = "loop"
    /\ i >= 1
    /\ forest[i].is_tree
    /\ TypeOf(forest[i]) = "playbook"
    /\ InlineMatched(forest[i]) # {}
    /\ <<i, "InlineA">> \in checked

(***************************************************************************)
(* C7                                                                      *)
(***************************************************************************)

Unclassified(tree) == tree.is_tree /\ TypeOf(tree) \notin {"playbook", "role"}

\* C7: a tree whose root type is neither playbook nor role is skipped.  The
\* step that consumes it changes no total, checks no rule and adds no
\* section, table row or result record.
C7_UnclassifiedSkipped ==
    [][(LoopStep /\ Unclassified(forest[i + 1])) =>
        /\ playbook_count' = playbook_count
        /\ role_count' = role_count
        /\ checked' = checked
        /\ tmp_result_txt' = tmp_result_txt
        /\ \A k \in 1..Len(Rules) :
            /\ RowsOf(separate_report', Rules[k].name) = RowsOf(separate_report, Rules[k].name)
            /\ ResultsOf(result_dict', Rules[k].name) = ResultsOf(result_dict, Rules[k].name)
    ]_vars

(***************************************************************************)
(* C8                                                                      *)
(***************************************************************************)

\* The text of a rule: its name and the lines of its message.
TextOf(rule_name) == {rule_name} \cup Elems(RuleMessage(rule_name))

MentionsRule(txt, rule_name) ==
    \E k \in 1..Len(txt) :
        \/ txt[k].kind \in {"text", "label"} /\ txt[k].text \in TextOf(rule_name)
        \/ txt[k].kind = "row" /\ txt[k].cells[3] = RuleMessage(rule_name)

\* The findings of a tree are findings of disabled rules only.
OnlyDisabledMatch(tree) ==
    /\ \E k \in Disabled : Matches(Rules[k], tree)
    /\ \A k \in 1..Len(Rules) : Matches(Rules[k], tree) => k \in Disabled

\* C8: disabled rules are inert.  After every step, a rule with enabled =
\* false has been checked on no tree, has no table, no result list and no
\* entry in details, and neither report text mentions it; a step on a tree
\* that only disabled rules would match changes no risk counter, not the
\* incident counter and not the incident text.
C8_DisabledInert ==
    [][/\ \A k \in Disabled :
            LET name == Rules[k].name IN
            /\ \A idx \in 1..Len(forest) : <<idx, name>> \notin checked'
            /\ IndexOf(separate_report', name) = 0
            /\ IndexOf(result_dict', name) = 0
            /\ \A e \in 1..Len(data_report'.details) : data_report'.details[e].rule # name
            /\ ~MentionsRule(tmp_result_txt', name)
            /\ ~MentionsRule(result_txt', name)
       /\ (TreeStep /\ OnlyDisabledMatch(forest[i + 1])) =>
            /\ report_num' = report_num
            /\ playbook_count'.risk = playbook_count.risk
            /\ role_count'.risk = role_count.risk
            /\ tmp_result_txt' = tmp_result_txt
            /\ result_dict' = result_dict
    ]_vars

\* A run has returned after a role tree that only disabled rules would match.
C8_Witness ==
    /\ pc = "done"
    /\ \E idx \in 1..Len(forest) :
        /\ forest[idx].is_tree
        /\ TypeOf(forest[idx]) = "role"
        /\ OnlyDisabledMatch(forest[idx])
        /\ <<idx, "InlineA">> \in checked
    /\ role_count.total >= 1

(***************************************************************************)
(* C9                                                                      *)
(***************************************************************************)

\* The list of playbooks of a role, through the heap.
MappedTo(map, h, role) == IF role \in DOMAIN map THEN h[map[role]] ELSE <<>>

\* The first index at which a playbook tree named playbook links the role.
FirstLink(role, playbook) ==
    CHOOSE idx \in 1..Len(forest) :
        /\ LinkedAt(idx, role, playbook)
        /\ \A j \in 1..(idx - 1) : ~LinkedAt(j, role, playbook)

\* C9: role_to_playbook_mapping is append-only and duplicate-free.  In every
\* step of the loop each role keeps its entry and its list only grows at the
\* end; after the step no list holds a name twice, every entry R -> P comes
\* from a playbook tree named P already processed with a task defined in
\* roles/R, the names stand in the order of their first link, and a step
\* that does not process a playbook tree leaves the mapping as it was.
C9_MappingAppendOnly ==
    [][LoopStep =>
        LET old == role_to_playbook_mappings
            new == role_to_playbook_mappings'
        IN
        /\ DOMAIN old \subseteq DOMAIN new
        /\ \A R \in DOMAIN old : IsPrefix(MappedTo(old, heap, R), MappedTo(new, heap', R))
        /\ \A R \in DOMAIN new :
            LET list == MappedTo(new, heap', R) IN
            /\ \A a, b \in 1..Len(list) : list[a] = list[b] => a = b
            /\ \A a \in 1..Len(list) : \E idx \in 1..i' : LinkedAt(idx, R, list[a])
            /\ \A a, b \in 1..Len(list) :
                a < b => FirstLink(R, list[a]) < FirstLink(R, list[b])
        /\ (~forest[i + 1].is_tree \/ TypeOf(forest[i + 1]) # "playbook") =>
            /\ new = old
            /\ \A R \in DOMAIN old : MappedTo(new, heap', R) = MappedTo(old, heap, R)
    ]_vars

\* Two playbooks are mapped to r1 in first-seen order, the first of them
\* processed twice or linking r1 twice.
C9_Witness ==
    /\ pc = "loop"
    /\ i = 3
    /\ MappedTo(role_to_playbook_mappings, heap, "r1") = <<"p2.yml", "p1.yml">>
    /\ NameOf(forest[1]) = "p2.yml"
    /\ NameOf(forest[2]) = "p1.yml"
    /\ NameOf(forest[3]) = "p2.yml"

(***************************************************************************)
(* C10                                                                     *)
(***************************************************************************)

\* C10: idempotence.  The structured reports returned by the calls of detect
\* on one forest with one rule set are equal.
C10_Idempotent ==
    \A a, b \in 1..Len(returned) : returned[a] = returned[b]

\* Two calls have returned a report with counts and result records.
C10_Witness ==
    /\ Len(returned) = 2
    /\ returned[2].details # <<>>
    /\ "roles" \in DOMAIN returned[2].summary
    /\ \E e \in 1..Len(returned[2].details) :
        \E n \in 1..Len(returned[2].details[e].results) :
            LET rec == returned[2].details[e].results[n] IN
            /\ "playbooks_use_this_role" \in DOMAIN rec
            /\ rec.playbooks_use_this_role # <<>>

(***************************************************************************)
(* C11                                                                     *)
(***************************************************************************)

\* The rows of the table that the narrative text shows under the label of a
\* rule: the run of row lines that follows the label.
TableRowsIn(txt, rule_name) ==
    IF \E p \in 1..Len(txt) : txt[p].kind = "label" /\ txt[p].text = rule_name
    THEN LET p == CHOOSE q \in 1..Len(txt) : txt[q].kind = "label" /\ txt[q].text = rule_name
             run_len == Cardinality({n \in (p + 1)..Len(txt) :
                            \A m \in (p + 1)..n : txt[m].kind = "row"})
         IN [n \in 1..run_len |-> txt[p + n].cells]
    ELSE <<>>

\* The entry of a rule in the details of a structured report.
DetailsOf(report, rule_name) ==
    IF \E e \in 1..Len(report.details) : report.details[e].rule = rule_name
    THEN report.details[CHOOSE e \in 1..Len(report.details) :
                            report.details[e].rule = rule_name].results
    ELSE <<>>

\* C11: tabulated findings are never lost from the structured report.  For
\* every enabled tabulated rule the result list has one record per row of the
\* rule's table, in the same order, with the same root type, root name and
\* message, and as many as there are processed trees on which the rule
\* matched; in the returned reports the records of the rule in details are
\* the rows of its table in the narrative text.
C11_TabulatedRecordsAreRows ==
    \A k \in EnabledTabulated :
        LET name == Rules[k].name
            rows == RowsOf(separate_report, name)
            recs == ResultsOf(result_dict, name)
        IN
        /\ Len(recs) = Len(rows)
        /\ \A n \in 1..Len(rows) :
            recs[n] = [type |-> rows[n][1], name |-> rows[n][2], message |-> rows[n][3]]
        /\ pc \in {"loop", "done"} =>
            Len(recs) = Cardinality({idx \in 1..i :
                            forest[idx].is_tree /\ Matches(Rules[k], forest[idx])})
        /\ pc = "done" =>
            LET shown == TableRowsIn(result_txt, name)
                listed == DetailsOf(data_report, name)
            IN /\ Len(listed) = Len(shown)
               /\ \A n \in 1..Len(shown) :
                    listed[n] = [type |-> shown[n][1], name |-> shown[n][2],
                                 message |-> shown[n][3]]

\* A returned report in which a tabulated rule has the records of a playbook
\* tree and of a role tree, in this order.
C11_Witness ==
    /\ pc = "done"
    /\ Len(DetailsOf(data_report, "TableT")) = 2
    /\ DetailsOf(data_report, "TableT")[1].type = "playbook"
    /\ DetailsOf(data_report, "TableT")[2].type = "role"
    /\ Len(TableRowsIn(result_txt, "TableT")) = 2

(***************************************************************************)
(* C12                                                                     *)
(***************************************************************************)

\* The lines that the narrative text shows under the label of a rule, up to
\* and without the separator that ends the section.
SectionIn(txt, rule_name) ==
    LET p == CHOOSE q \in 1..Len(txt) : txt[q].kind = "label" /\ txt[q].text = rule_name
        e == CHOOSE q \in (p + 1)..Len(txt) :
                /\ txt[q].kind = "sep"
                /\ \A m \in (p + 1)..(q - 1) : txt[m].kind # "sep"
    IN SubSeq(txt, p + 1, e - 1)

HasType(type) == \E idx \in 1..Len(forest) : forest[idx].is_tree /\ TypeOf(forest[idx]) = type

\* The subject the run is about, for a forest of playbook and role trees.
SubjectOfRun ==
    IF HasType("playbook") /\ HasType("role") THEN "playbooks/roles"
    ELSE IF HasType("playbook") THEN "playbooks"
    ELSE "roles"

\* C12: in the narrative text of a run over playbook and role trees, the
\* section of a tabulated rule without a matched row is the one line of its
\* all_ok_message (the default "All <subject> are OK" when the rule gives
\* none) in which the placeholder is replaced by "playbooks/roles",
\* "playbooks" or "roles" after the kinds of tree processed; the section of a
\* rule with matched rows is these rows and no all-ok line.
C12_AllOkSubject ==
    (/\ pc = "done"
     /\ \E idx \in 1..Len(forest) : forest[idx].is_tree
     /\ \A idx \in 1..Len(forest) : ~Unclassified(forest[idx])) =>
        \A k \in EnabledTabulated :
            LET rule == Rules[k]
                section == SectionIn(result_txt, rule.name)
                matched == {idx \in 1..Len(forest) :
                                forest[idx].is_tree /\ Matches(rule, forest[idx])}
            IN IF matched = {}
               THEN /\ Len(section) = 1
                    /\ section[1].kind = "all_ok"
                    /\ subject_placeholder \notin Elems(section[1].names)
                    /\ section[1].names =
                        IF rule.all_ok_message = <<>>
                        THEN <<"  All ", SubjectOfRun, " are OK">>
                        ELSE <<"  ">> \o [n \in 1..Len(rule.all_ok_message) |->
                                IF rule.all_ok_message[n] = subject_placeholder
                                THEN SubjectOfRun ELSE rule.all_ok_message[n]]
               ELSE /\ Len(section) = Cardinality(matched)
                    /\ \A n \in 1..Len(section) : section[n].kind = "row"

\* A run over a playbook tree and role trees in which one tabulated rule
\* matched nothing and reads "No playbooks/roles at risk" and the other shows
\* its row.
C12_Witness ==
    /\ pc = "done"
    /\ HasType("playbook") /\ HasType("role")
    /\ \A idx \in 1..Len(forest) : ~Unclassified(forest[idx])
    /\ SectionIn(result_txt, "TableT") =
        <<Line("all_ok", 0, "", <<"  ", "No ", "playbooks/roles", " at risk">>)>>
    /\ Len(SectionIn(result_txt, "TableU")) = 1
    /\ SectionIn(result_txt, "TableU")[1].kind = "all_ok"

(***************************************************************************)
(* C13                                                                     *)
(***************************************************************************)

\* The check of an enabled rule raises on the tree.
RaisesOn(tree) ==
    /\ tree.is_tree
    /\ \E k \in 1..Len(Rules) : Rules[k].enabled /\ check(Rules[k], tree.taskcalls).raises

\* C13: a rule failure aborts the run.  When the check of an enabled rule
\* raises on the tree at hand, the step ends the call with the exception at
\* that tree: no narrative and no structured report is built or returned;
\* after it detect takes no further step, so no rule is checked on a later
\* tree.
C13_RuleFailureAborts ==
    [][/\ (pc = "loop" /\ i < Len(forest) /\ RaisesOn(forest[i + 1])) =>
            /\ pc' = "raised"
            /\ i' = i
            /\ returned' = returned
            /\ data_report' = EmptyReport
            /\ result_txt' = Header
       /\ pc' = "raised" =>
            \A idx \in (i' + 2)..Len(forest) : \A name \in RuleNames : <<idx, name>> \notin checked'
       /\ pc # "raised"
    ]_vars

\* The run was aborted at its second tree, after a rule had been checked on
\* it, with a third tree left unprocessed.
C13_Witness ==
    /\ pc = "raised"
    /\ i = 1
    /\ Len(forest) = 3
    /\ forest[1].is_tree
    /\ <<2, "InlineA">> \in checked
    /\ returned = <<>>

(***************************************************************************)
(* C14                                                                     *)
(***************************************************************************)

\* C14: the concretizer homebrew.  For options that are not a dict the
\* result is the empty mapping; for a dict the result has the key pkg, equal
\* to options["name"], exactly when name is present, the key delete, equal to
\* true, exactly when options["state"] is "absent", and no other key.
C14_Homebrew ==
    apc = "homebrew_returned" =>
        LET options == task.module_options
            data == ret.items
        IN IF options.kind # "dict" THEN data = EmptyDict
           ELSE /\ DOMAIN data \subseteq {"pkg", "delete"}
                /\ "pkg" \in DOMAIN data <=> "name" \in DOMAIN options.items
                /\ "pkg" \in DOMAIN data => data["pkg"] = options.items["name"]
                /\ "delete" \in DOMAIN data <=>
                    ("state" \in DOMAIN options.items /\ options.items["state"] = "absent")
                /\ "delete" \in DOMAIN data => data["delete"] = TRUE

\* homebrew has returned {pkg: wget, delete: true} for {name: wget, state:
\* absent, version: 1.0}.
C14_Witness ==
    /\ apc = "homebrew_returned"
    /\ task.module_options.kind = "dict"
    /\ DOMAIN task.module_options.items = {"name", "state", "version"}
    /\ task.module_options.items["name"] = "wget"
    /\ task.module_options.items["state"] = "absent"
    /\ DOMAIN ret.items = {"pkg", "delete"}
    /\ ret.items["pkg"] = "wget"
    /\ ret.items["delete"] = TRUE

(***************************************************************************)
(* C15                                                                     *)
(***************************************************************************)

\* C15: run returns a sequence of annotations for every task call, the empty
\* sequence when the task call does not match, and never the task call
\* itself.
C15_RunReturnsAnnotations ==
    apc = "run_returned" =>
        /\ ret.kind = "list"
        /\ ~match(task) => ret.items = <<>>

(***************************************************************************)
(* C16                                                                     *)
(***************************************************************************)

\* The positions of the lines of a kind in a text.
LinesOfKind(txt, kind) == {p \in 1..Len(txt) : txt[p].kind = kind}

\* The tree at idx gets a numbered section: it is not a playbook and an
\* enabled inline rule matches it.
Reported(idx) ==
    /\ forest[idx].is_tree
    /\ TypeOf(forest[idx]) # "playbook"
    /\ InlineMatched(forest[idx]) # {}

\* The indices of the reported trees in the order of the forest.
ReportedIndices == SelectSeq([idx \in 1..Len(forest) |-> idx], Reported)

IsHeaderLine(line) == line.kind = "header"

\* Header, summary counts, numbered sections in the order of their trees,
\* and every numbered section before every tabulated section.
NarrativeOrder(txt) ==
    LET first_sep == CHOOSE p \in (Len(Header) + 1)..Len(txt) :
                        /\ txt[p].kind = "sep"
                        /\ \A q \in (Len(Header) + 1)..(p - 1) : txt[q].kind # "sep"
        categories == {type \in {"playbook", "other"} :
                        \E idx \in 1..Len(forest) :
                            /\ forest[idx].is_tree
                            /\ (type = "playbook") <=> (TypeOf(forest[idx]) = "playbook")}
        headers == SelectSeq(txt, IsHeaderLine)
    IN /\ IsPrefix(Header, txt)
       /\ \A q \in (Len(Header) + 1)..(first_sep - 1) : txt[q].kind \in {"text", "count"}
       /\ \A q \in LinesOfKind(txt, "count") : Len(Header) < q /\ q < first_sep
       /\ Cardinality(LinesOfKind(txt, "count")) = 2 * Cardinality(categories)
       /\ \A h \in LinesOfKind(txt, "header") : first_sep < h
       /\ Len(headers) = Len(ReportedIndices)
       /\ \A n \in 1..Len(headers) :
            headers[n] = Line("header", n, upper(TypeOf(forest[ReportedIndices[n]])),
                              <<NameOf(forest[ReportedIndices[n]])>>)
       /\ \A h \in LinesOfKind(txt, "header"), l \in LinesOfKind(txt, "label") : h < l

\* One tabulated section for each enabled tabulated rule and no other.
OneSectionPerTabulatedRule(txt) ==
    /\ \A k \in EnabledTabulated :
        Cardinality({p \in LinesOfKind(txt, "label") : txt[p].text = Rules[k].name}) = 1
    /\ \A p \in LinesOfKind(txt, "label") :
        \E k \in EnabledTabulated : txt[p].text = Rules[k].name

\* C16 as stated: for every forest the narrative text is the header, the
\* summary counts, the numbered sections in the order their trees were
\* processed and then exactly one tabulated section for each enabled
\* tabulated rule, also for a forest with no trees.
C16_TablesForEveryForest ==
    pc = "done" =>
        /\ NarrativeOrder(result_txt)
        /\ OneSectionPerTabulatedRule(result_txt)

\* C16: the narrative text is the header, the summary counts, the numbered
\* sections in the order their trees were processed and then the tabulated
\* sections: exactly one for each enabled tabulated rule, matched or not,
\* when the forest holds at least one tree, and none when it holds no tree.
C16_NarrativeOrdering ==
    pc = "done" =>
        /\ NarrativeOrder(result_txt)
        /\ IF \E idx \in 1..Len(forest) : forest[idx].is_tree
           THEN OneSectionPerTabulatedRule(result_txt)
           ELSE LinesOfKind(result_txt, "label") = {}

\* A run with two numbered sections followed by two tabulated sections, one
\* with a row and one with its all-ok line.
C16_Witness ==
    /\ pc = "done"
    /\ Cardinality(LinesOfKind(result_txt, "header")) = 2
    /\ Cardinality(LinesOfKind(result_txt, "label")) = 2
    /\ LinesOfKind(result_txt, "row") # {}
    /\ LinesOfKind(result_txt, "all_ok") # {}

(***************************************************************************)
(* C17                                                                     *)
(***************************************************************************)

\* The numbered sections emitted so far, in the order of the text.
SectionHeaders == SelectSeq(tmp_result_txt, IsHeaderLine)

\* The reported trees among the first n elements of the forest.
ReportedUpTo(n) == SelectSeq([idx \in 1..n |-> idx], Reported)

\* The counter and the numbered sections agree with the trees processed.
NumberingHolds ==
    /\ report_num = 1 + playbook_count.risk + role_count.risk
    /\ Len(SectionHeaders) = report_num - 1
    /\ Len(SectionHeaders) = Len(ReportedUpTo(i))
    /\ \A n \in 1..Len(SectionHeaders) :
        /\ SectionHeaders[n].num = n
        /\ SectionHeaders[n].names = <<NameOf(forest[ReportedUpTo(i)[n]])>>
        /\ SectionHeaders[n].text = upper(TypeOf(forest[ReportedUpTo(i)[n]]))

\* C17: incident numbering.  After every tree processed the incident counter
\* is 1 + playbook_count.risk + role_count.risk, it has not decreased, and
\* the numbered sections emitted so far carry the numbers 1, 2, ...,
\* counter - 1, each once, in increasing order of the index of their tree.
C17_IncidentNumbering ==
    [][TreeStep =>
        /\ report_num' >= report_num
        /\ NumberingHolds']_vars

\* Three trees processed, the first and the third reported as #1 and #2.
C17_Witness ==
    /\ pc = "loop"
    /\ i = 3
    /\ report_num = 3
    /\ ReportedUpTo(i) = <<1, 3>>
    /\ SectionHeaders[2].num = 2

(***************************************************************************)
(* C18                                                                     *)
(***************************************************************************)

\* The line "Risk Found" under "Playbooks" in the narrative text.
PlaybooksRiskFoundLine(txt) ==
    LET p == CHOOSE q \in 1..Len(txt) : txt[q].kind = "text" /\ txt[q].text = "Playbooks"
    IN txt[p + 2]

\* C18: playbook_count.risk stays 0 throughout detect, and
\* summary.playbooks.risk_found of the structured report is 0 whenever it is
\* present.
C18_PlaybookRiskZero ==
    /\ playbook_count.risk = 0
    /\ \A n \in 1..Len(returned) :
        "playbooks" \in DOMAIN returned[n].summary
            => returned[n].summary["playbooks"].risk_found = 0
    /\ (pc = "done" /\ "playbooks" \in DOMAIN data_report.summary)
            => data_report.summary["playbooks"].risk_found = 0

\* A returned report with playbooks.risk_found = 0 while risk_found_playbooks
\* is not empty and the narrative text prints "Risk Found: 1" for playbooks,
\* in a run in which a rule matched the playbook tree.
C18_Witness ==
    /\ pc = "done"
    /\ "playbooks" \in DOMAIN data_report.summary
    /\ data_report.summary["playbooks"].risk_found = 0
    /\ risk_found_playbooks # {}
    /\ PlaybooksRiskFoundLine(result_txt) = Line("count", 1, "Risk Found", <<>>)
    /\ \E idx \in 1..Len(forest) :
        /\ forest[idx].is_tree
        /\ TypeOf(forest[idx]) = "playbook"
        /\ InlineMatched(forest[idx]) # {}

(***************************************************************************)
(* C19                                                                     *)
(***************************************************************************)

\* The names of the playbook trees among the first n elements of the forest.
ProcessedPlaybooks(n) ==
    {NameOf(forest[idx]) : idx \in {k \in 1..n : forest[k].is_tree /\ TypeOf(forest[k]) = "playbook"}}

\* The risk counts are within the totals of the trees processed.
WithinTotals ==
    /\ role_count.risk <= role_count.total
    /\ risk_found_playbooks \subseteq ProcessedPlaybooks(i)
    /\ Cardinality(risk_found_playbooks) <= playbook_count.total

\* C19: risk counts never exceed totals.  After every tree processed
\* role_count.risk <= role_count.total, every element of
\* risk_found_playbooks is the name of a playbook tree already processed in
\* this run, the number of its elements is <= playbook_count.total, and
\* risk_found_playbooks has only grown.
C19_RiskWithinTotals ==
    [][TreeStep =>
        /\ WithinTotals'
        /\ risk_found_playbooks \subseteq risk_found_playbooks']_vars

\* Two playbooks that use role r1 have been processed and then r1 reported:
\* both playbooks are found at risk.
C19_Witness ==
    /\ pc = "loop"
    /\ i = 3
    /\ Cardinality(risk_found_playbooks) = 2
    /\ playbook_count.total = 2
    /\ role_count.risk = 1
    /\ role_count.total = 1

====
